---- MODULE Spec2Model ----
(***************************************************************************)
(* Model of the layer lifecycle and synchronisation controller             *)
(* BGAPPDeckGLWASM (task002-poc/wasm_deckgl_poc.rs).                       *)
(*                                                                         *)
(* Conventions.                                                            *)
(*  - Times are whole milliseconds: js_sys::Date::now() returns an         *)
(*    integral number of milliseconds, so every elapsed value and every    *)
(*    sum of them is an integer that f64 holds exactly.  The clock is      *)
(*    taken not to run backwards between the two reads of one call, so an  *)
(*    elapsed value is a natural number.                                   *)
(*  - Geographic positions are in tenths of a degree, weights in           *)
(*    hundredths, both in exact arithmetic: the f64 results differ from    *)
(*    these by rounding errors below 1e-15 (0.3 + (-6 * 0.05) is           *)
(*    -5.6e-17, 0.3 + 6 * 0.05 is 0.6000000000000001).                     *)
(*  - The page environment (window, document) is present: the code         *)
(*    asserts this itself with unwrap() at lines 123-124 and 325-326.      *)
(*  - Option<DeckGL> is a sequence of length 0 (None) or 1 (Some); its      *)
(*    element is the renderer object the handle refers to: the config it   *)
(*    was constructed with, the layer list of the last setProps it         *)
(*    received and whether finalize has been called on it.  A renderer     *)
(*    whose handle is overwritten can no longer be called; dropped counts  *)
(*    such renderers by whether finalize was ever called on them.          *)
(*  - call describes the last public call: the operation, whether it       *)
(*    returned normally, the duration it measured, the renderer methods    *)
(*    it invoked, in order, and what its capability probe met; ret is      *)
(*    what it returned.                                                    *)
(***************************************************************************)
EXTENDS Integers, Sequences, FiniteSets, TLC

VARIABLES deck_instance, view_state, layers, performance, canvas_id,
          dropped, call, ret

vars == <<deck_instance, view_state, layers, performance, canvas_id,
          dropped, call, ret>>

\* the controller's fields other than the handle
fields == <<view_state, layers, performance, canvas_id>>

None == <<>>
Some(x) == <<x>>

(***************************************************************************)
(* Bounds                                                                  *)
(***************************************************************************)
MaxLayers == 2
\* successful initialize calls in one session
MaxInits == 2
\* a call is measured as taking no time or SlowMs milliseconds
SlowMs == 1000

CanvasIds == {"map"}
\* the ids callers pass to the two add-layer operations
ScatterplotIds == {"a"}
HeatmapIds == {"temp1"}
Durations == {0, SlowMs}
\* outcome of one HtmlCanvasElement::get_context call
ContextResults == {"context", "null", "error"}
\* what one capability probe meets.  canvas: create_element("canvas") and the
\* cast to HtmlCanvasElement both return Ok; webgl2, webgl: what get_context
\* returns for that tag ("error" is Err), "unprobed" when the probe returns
\* before it makes that call
Probes ==
  {[canvas |-> FALSE, webgl2 |-> "unprobed", webgl |-> "unprobed"],
   [canvas |-> TRUE, webgl2 |-> "context", webgl |-> "unprobed"]}
  \cup {[canvas |-> TRUE, webgl2 |-> w2, webgl |-> w1] :
          w2 \in ContextResults \ {"context"}, w1 \in ContextResults}

(***************************************************************************)
(* Data generators                                                         *)
(***************************************************************************)
zones ==
  << [name |-> "Cabinda",  lat |-> -55,  lng |-> 122],
     [name |-> "Soyo",     lat |-> -61,  lng |-> 123],
     [name |-> "Luanda",   lat |-> -88,  lng |-> 132],
     [name |-> "Benguela", lat |-> -126, lng |-> 134],
     [name |-> "Namibe",   lat |-> -152, lng |-> 121] >>

species == <<"Sardinha", "Atum", "Carapau", "Corvina", "Garoupa">>

\* the values lo, lo+step, ... not above hi, in order: (lo..=hi).step_by(step)
RECURSIVE step_by(_, _, _)
step_by(lo, hi, step) ==
  IF lo > hi THEN <<>> ELSE <<lo>> \o step_by(lo + step, hi, step)

\* variant: the species index starts one label late
RECURSIVE zone_points_shifted(_, _)
zone_points_shifted(z, from) ==
  IF from >= 10 THEN <<>>
  ELSE << [position  |-> <<z.lng + (from - 5), z.lat + (from - 5)>>,
           abundance |-> 50 + from * 15,
           species   |-> species[((from + 1) % Len(species)) + 1],
           zone      |-> z.name] >>
       \o zone_points_shifted(z, from + 1)

\* the records pushed by the inner loop for one zone, i = from, from+1, ..., 9
RECURSIVE zone_points(_, _)
zone_points(z, from) ==
  IF from >= 10 THEN <<>>
  ELSE << [position  |-> <<z.lng + (from - 5), z.lat + (from - 5)>>,
           abundance |-> 50 + from * 15,
           species   |-> species[(from % Len(species)) + 1],
           zone      |-> z.name] >>
       \o zone_points(z, from + 1)

RECURSIVE fishing_from(_)
fishing_from(k) ==
  IF k > Len(zones) THEN <<>>
  ELSE zone_points(zones[k], 0) \o fishing_from(k + 1)

create_angola_fishing_data == fishing_from(1)

\* variant: the weight grows by 0.1 per degree
RECURSIVE lat_points_steep(_, _)
lat_points_steep(lat, lngs) ==
  IF lngs = <<>> THEN <<>>
  ELSE << [position |-> <<Head(lngs) * 10, lat * 10>>,
           weight   |-> 30 + (lat + 10) * 10] >>
       \o lat_points_steep(lat, Tail(lngs))

\* the records pushed by the inner loop for one latitude
RECURSIVE lat_points(_, _)
lat_points(lat, lngs) ==
  IF lngs = <<>> THEN <<>>
  ELSE << [position |-> <<Head(lngs) * 10, lat * 10>>,
           weight   |-> 30 + (lat + 10) * 5] >>
       \o lat_points(lat, Tail(lngs))

RECURSIVE temperature_from(_)
temperature_from(lats) ==
  IF lats = <<>> THEN <<>>
  ELSE lat_points(Head(lats), step_by(11, 14, 1))
       \o temperature_from(Tail(lats))

create_temperature_data == temperature_from(step_by(-16, -4, 2))

(***************************************************************************)
(* Transcoding                                                             *)
(***************************************************************************)
\* serde_json::to_value of a FishingZone: an object with the struct's fields
fishing_to_value(d) ==
  [position |-> d.position, abundance |-> d.abundance,
   species |-> d.species, zone |-> d.zone]

\* serde_json::to_value of a TemperaturePoint
temperature_to_value(d) ==
  [position |-> d.position, weight |-> d.weight]

\* JsValue::from_serde(&self.layers): layer_type is serialised as "type"
layers_to_js(ls) ==
  [i \in 1..Len(ls) |->
     [id |-> ls[i].id, type |-> ls[i].layer_type, data |-> ls[i].data]]

\* JsValue::from_serde(&self.view_state)
view_state_to_js(v) ==
  [longitude |-> v.longitude, latitude |-> v.latitude, zoom |-> v.zoom,
   pitch |-> v.pitch, bearing |-> v.bearing]

(***************************************************************************)
(* The external renderer                                                   *)
(***************************************************************************)
\* new deck.DeckGL(config)
DeckGL_new(config) ==
  [config |-> config, layers |-> <<>>, finalized |-> FALSE]

\* deck.setProps({layers: layers_js})
DeckGL_setProps(deck, layers_js) ==
  [deck EXCEPT !.layers = layers_js]

\* deck.finalize()
DeckGL_finalize(deck) ==
  [deck EXCEPT !.finalized = TRUE]

NoProbe == [canvas |-> FALSE, webgl2 |-> "unprobed", webgl |-> "unprobed"]

Called(op, ok, elapsed, calls) ==
  [op |-> op, ok |-> ok, elapsed |-> elapsed, calls |-> calls,
   probe |-> NoProbe]

(***************************************************************************)
(* Construction                                                            *)
(***************************************************************************)
new(id) ==
  /\ deck_instance = None
  /\ view_state = [longitude |-> 120, latitude |-> -110, zoom |-> 5,
                   pitch |-> 0, bearing |-> 0]
  /\ layers = <<>>
  /\ performance = [init_time_ms |-> 0, render_time_ms |-> 0,
                    layer_count |-> 0, memory_usage_kb |-> 0, fps |-> 0]
  /\ canvas_id = id

Init ==
  /\ \E id \in CanvasIds : new(id)
  /\ dropped = [live |-> 0, finalized |-> 0]
  /\ call = Called("new", TRUE, 0, <<>>)
  /\ ret = <<>>

(***************************************************************************)
(* initialize                                                              *)
(***************************************************************************)
\* the renderers after self.deck_instance = Some(deck) has replaced the old
\* value of the field: a renderer that was there is dropped as it is
drop_handle(old, d) ==
  IF old = None THEN d
  ELSE IF old[1].finalized
       THEN [d EXCEPT !.finalized = @ + 1]
       ELSE [d EXCEPT !.live = @ + 1]

\* renderers constructed so far
Constructed == dropped.live + dropped.finalized + Len(deck_instance)

\* variant: a call that fails has already given up the old handle
initialize_clearing ==
  \E js_ok \in BOOLEAN, elapsed \in Durations :
    IF js_ok
    THEN LET config == [container        |-> canvas_id,
                        initialViewState |-> view_state_to_js(view_state),
                        controller       |-> TRUE]
         IN /\ Constructed < MaxInits
            /\ deck_instance' = Some(DeckGL_new(config))
            /\ dropped' = drop_handle(deck_instance, dropped)
            /\ performance' = [performance EXCEPT !.init_time_ms = elapsed]
            /\ call' = Called("initialize", TRUE, elapsed, <<>>)
            /\ ret' = <<TRUE>>
            /\ UNCHANGED <<view_state, layers, canvas_id>>
    ELSE /\ call' = Called("initialize", FALSE, 0, <<>>)
         /\ ret' = <<>>
         /\ deck_instance' = None
         /\ dropped' = drop_handle(deck_instance, dropped)
         /\ UNCHANGED fields

\* variant: init_time_ms accumulates as render_time_ms does
initialize_accumulating ==
  \E js_ok \in BOOLEAN, elapsed \in Durations :
    IF js_ok
    THEN LET config == [container        |-> canvas_id,
                        initialViewState |-> view_state_to_js(view_state),
                        controller       |-> TRUE]
         IN /\ Constructed < MaxInits
            /\ deck_instance' = Some(DeckGL_new(config))
            /\ dropped' = drop_handle(deck_instance, dropped)
            /\ performance' = [performance EXCEPT !.init_time_ms = @ + elapsed]
            /\ call' = Called("initialize", TRUE, elapsed, <<>>)
            /\ ret' = <<TRUE>>
            /\ UNCHANGED <<view_state, layers, canvas_id>>
    ELSE /\ call' = Called("initialize", FALSE, 0, <<>>)
         /\ ret' = <<>>
         /\ UNCHANGED <<deck_instance, fields, dropped>>

\* js_ok = FALSE: one of the Reflect::set calls, or the renderer's
\* constructor, fails; the call ends before any field is written
initialize ==
  \E js_ok \in BOOLEAN, elapsed \in Durations :
    IF js_ok
    THEN LET config == [container        |-> canvas_id,
                        initialViewState |-> view_state_to_js(view_state),
                        controller       |-> TRUE]
         IN /\ Constructed < MaxInits
            /\ deck_instance' = Some(DeckGL_new(config))
            /\ dropped' = drop_handle(deck_instance, dropped)
            /\ performance' = [performance EXCEPT !.init_time_ms = elapsed]
            /\ call' = Called("initialize", TRUE, elapsed, <<>>)
            /\ ret' = <<TRUE>>
            /\ UNCHANGED <<view_state, layers, canvas_id>>
    ELSE /\ call' = Called("initialize", FALSE, 0, <<>>)
         /\ ret' = <<>>
         /\ UNCHANGED <<deck_instance, fields, dropped>>

(***************************************************************************)
(* add-layer operations                                                    *)
(***************************************************************************)
\* update_deck_layers(&self) on the controller whose handle is handle and
\* whose registry is ls.  js_ok = FALSE: from_serde or Reflect::set returns
\* Err, which `?` returns before setProps is reached.  The result is the
\* Result's variant, the renderer methods invoked, and the handle with the
\* renderer as the call leaves it.
\* variant: with no handle the sync reports an error
update_deck_layers_strict(handle, ls, js_ok) ==
  IF handle # None
  THEN IF js_ok
       THEN [ok |-> TRUE, calls |-> <<"setProps">>,
             deck_instance |-> Some(DeckGL_setProps(handle[1], layers_to_js(ls)))]
       ELSE [ok |-> FALSE, calls |-> <<>>, deck_instance |-> handle]
  ELSE [ok |-> FALSE, calls |-> <<>>, deck_instance |-> handle]

\* variant: the sync pushes the newest layer only
update_deck_layers_delta(handle, ls, js_ok) ==
  IF handle # None
  THEN IF js_ok
       THEN [ok |-> TRUE, calls |-> <<"setProps">>,
             deck_instance |->
               Some(DeckGL_setProps(handle[1],
                                    layers_to_js(<<ls[Len(ls)]>>)))]
       ELSE [ok |-> FALSE, calls |-> <<>>, deck_instance |-> handle]
  ELSE [ok |-> TRUE, calls |-> <<>>, deck_instance |-> handle]

update_deck_layers(handle, ls, js_ok) ==
  IF handle # None
  THEN IF js_ok
       THEN [ok |-> TRUE, calls |-> <<"setProps">>,
             deck_instance |-> Some(DeckGL_setProps(handle[1], layers_to_js(ls)))]
       ELSE [ok |-> FALSE, calls |-> <<>>, deck_instance |-> handle]
  ELSE [ok |-> TRUE, calls |-> <<>>, deck_instance |-> handle]

\* the metrics written after a sync that returned Ok: elapsed is added to
\* render_time_ms and layer_count becomes the registry's length n
\* variant: layer_count is incremented instead of set to the length
record_render_increment(perf, elapsed, n) ==
  [perf EXCEPT !.render_time_ms = @ + elapsed, !.layer_count = @ + 1]

\* variant: render_time_ms is overwritten instead of accumulated
record_render_overwrite(perf, elapsed, n) ==
  [perf EXCEPT !.render_time_ms = elapsed, !.layer_count = n]

record_render(perf, elapsed, n) ==
  [perf EXCEPT !.render_time_ms = @ + elapsed, !.layer_count = n]

\* variant: a layer whose id is already registered replaces that entry
add_scatterplot_layer_upsert ==
  \E layer_id \in ScatterplotIds, elapsed \in Durations, js_ok \in BOOLEAN :
    LET fishing_data == create_angola_fishing_data
        data_js == [i \in 1..Len(fishing_data) |->
                      fishing_to_value(fishing_data[i])]
        layer == [id |-> layer_id, layer_type |-> "ScatterplotLayer",
                  data |-> data_js]
        same == {i \in 1..Len(layers) : layers[i].id = layer_id}
        pushed == IF same = {} THEN Append(layers, layer)
                  ELSE [i \in 1..Len(layers) |->
                          IF i \in same THEN layer ELSE layers[i]]
        sync == update_deck_layers(deck_instance, pushed, js_ok)
    IN /\ Len(layers) < MaxLayers
       /\ layers' = pushed
       /\ deck_instance' = sync.deck_instance
       /\ IF sync.ok
          THEN /\ performance' = record_render(performance, elapsed, Len(pushed))
               /\ call' = Called("add_scatterplot_layer", TRUE, elapsed, sync.calls)
          ELSE /\ performance' = performance
               /\ call' = Called("add_scatterplot_layer", FALSE, 0, sync.calls)
       /\ ret' = <<>>
       /\ UNCHANGED <<view_state, canvas_id, dropped>>

add_scatterplot_layer ==
  \E layer_id \in ScatterplotIds, elapsed \in Durations, js_ok \in BOOLEAN :
    LET fishing_data == create_angola_fishing_data
        data_js == [i \in 1..Len(fishing_data) |->
                      fishing_to_value(fishing_data[i])]
        layer == [id |-> layer_id, layer_type |-> "ScatterplotLayer",
                  data |-> data_js]
        pushed == Append(layers, layer)
        sync == update_deck_layers(deck_instance, pushed, js_ok)
    IN /\ Len(layers) < MaxLayers
       /\ layers' = pushed
       /\ deck_instance' = sync.deck_instance
       /\ IF sync.ok
          THEN /\ performance' = record_render(performance, elapsed, Len(pushed))
               /\ call' = Called("add_scatterplot_layer", TRUE, elapsed, sync.calls)
          ELSE /\ performance' = performance
               /\ call' = Called("add_scatterplot_layer", FALSE, 0, sync.calls)
       /\ ret' = <<>>
       /\ UNCHANGED <<view_state, canvas_id, dropped>>

add_heatmap_layer ==
  \E layer_id \in HeatmapIds, elapsed \in Durations, js_ok \in BOOLEAN :
    LET temp_data == create_temperature_data
        data_js == [i \in 1..Len(temp_data) |->
                      temperature_to_value(temp_data[i])]
        layer == [id |-> layer_id, layer_type |-> "HeatmapLayer",
                  data |-> data_js]
        pushed == Append(layers, layer)
        sync == update_deck_layers(deck_instance, pushed, js_ok)
    IN /\ Len(layers) < MaxLayers
       /\ layers' = pushed
       /\ deck_instance' = sync.deck_instance
       /\ IF sync.ok
          THEN /\ performance' = record_render(performance, elapsed, Len(pushed))
               /\ call' = Called("add_heatmap_layer", TRUE, elapsed, sync.calls)
          ELSE /\ performance' = performance
               /\ call' = Called("add_heatmap_layer", FALSE, 0, sync.calls)
       /\ ret' = <<>>
       /\ UNCHANGED <<view_state, canvas_id, dropped>>

(***************************************************************************)
(* run_sanity_checks                                                       *)
(***************************************************************************)
\* an Err of get_context becomes NULL by unwrap_or, which is not truthy
\* variant: no fallback to the "webgl" tier
check_webgl_support_webgl2_only(probe) ==
  IF probe.canvas
  THEN IF probe.webgl2 = "context" THEN TRUE ELSE FALSE
  ELSE FALSE

check_webgl_support(probe) ==
  IF probe.canvas
  THEN IF probe.webgl2 = "context" THEN TRUE
       ELSE IF probe.webgl = "context" THEN TRUE
       ELSE FALSE
  ELSE FALSE

memory_estimate(ls) == Len(ls) * 100

\* variant: the handle check is left out of the checks
sanity_checks_no_handle(handle, ls, perf, probe) ==
  [wasm_initialized        |-> TRUE,
   layers_created          |-> Len(ls) > 0,
   webgl2_available        |-> check_webgl_support(probe),
   init_time_acceptable    |-> perf.init_time_ms < 1000,
   render_time_acceptable  |-> perf.render_time_ms < 500,
   memory_usage_acceptable |-> memory_estimate(ls) < 10000]

sanity_checks(handle, ls, perf, probe) ==
  [wasm_initialized        |-> TRUE,
   deck_instance_created   |-> handle # None,
   layers_created          |-> Len(ls) > 0,
   webgl2_available        |-> check_webgl_support(probe),
   init_time_acceptable    |-> perf.init_time_ms < 1000,
   render_time_acceptable  |-> perf.render_time_ms < 500,
   memory_usage_acceptable |-> memory_estimate(ls) < 10000]

\* checks.values().all(|&v| v)
all_passed(checks) == \A k \in DOMAIN checks : checks[k]

\* variant: the pass refreshes layer_count as well
store_memory_estimate_and_count(perf, ls) ==
  [perf EXCEPT !.memory_usage_kb = memory_estimate(ls),
               !.layer_count = Len(ls)]

\* line 305 writes the estimate into the stored metrics
store_memory_estimate(perf, ls) ==
  [perf EXCEPT !.memory_usage_kb = memory_estimate(ls)]

\* the report's "timestamp" (a further Date::now() reading) is not modelled
run_sanity_checks ==
  \E probe \in Probes :
    LET checks == sanity_checks(deck_instance, layers, performance, probe)
    IN /\ performance' = store_memory_estimate(performance, layers)
       /\ ret' = << [checks |-> checks, performance |-> performance',
                     all_passed |-> all_passed(checks)] >>
       /\ call' = [Called("run_sanity_checks", TRUE, 0, <<>>) EXCEPT !.probe = probe]
       /\ UNCHANGED <<deck_instance, view_state, layers, canvas_id, dropped>>

(***************************************************************************)
(* The generators called directly, get_performance_metrics, cleanup        *)
(***************************************************************************)
call_create_angola_fishing_data ==
  /\ ret' = <<create_angola_fishing_data>>
  /\ call' = Called("create_angola_fishing_data", TRUE, 0, <<>>)
  /\ UNCHANGED <<deck_instance, fields, dropped>>

call_create_temperature_data ==
  /\ ret' = <<create_temperature_data>>
  /\ call' = Called("create_temperature_data", TRUE, 0, <<>>)
  /\ UNCHANGED <<deck_instance, fields, dropped>>

get_performance_metrics ==
  /\ ret' = <<performance>>
  /\ call' = Called("get_performance_metrics", TRUE, 0, <<>>)
  /\ UNCHANGED <<deck_instance, fields, dropped>>

\* variant: cleanup gives the handle up after the teardown
cleanup_taking ==
  /\ IF deck_instance # None
     THEN /\ deck_instance' = None
          /\ dropped' = [dropped EXCEPT !.finalized = @ + 1]
          /\ call' = Called("cleanup", TRUE, 0, <<"finalize">>)
     ELSE /\ deck_instance' = deck_instance
          /\ dropped' = dropped
          /\ call' = Called("cleanup", TRUE, 0, <<>>)
  /\ ret' = <<>>
  /\ UNCHANGED fields

\* variant: cleanup also empties the registry
cleanup_clearing ==
  /\ IF deck_instance # None
     THEN /\ deck_instance' = Some(DeckGL_finalize(deck_instance[1]))
          /\ call' = Called("cleanup", TRUE, 0, <<"finalize">>)
     ELSE /\ deck_instance' = deck_instance
          /\ call' = Called("cleanup", TRUE, 0, <<>>)
  /\ ret' = <<>>
  /\ layers' = <<>>
  /\ UNCHANGED <<view_state, performance, canvas_id, dropped>>

cleanup ==
  /\ IF deck_instance # None
     THEN /\ deck_instance' = Some(DeckGL_finalize(deck_instance[1]))
          /\ call' = Called("cleanup", TRUE, 0, <<"finalize">>)
     ELSE /\ deck_instance' = deck_instance
          /\ call' = Called("cleanup", TRUE, 0, <<>>)
  /\ ret' = <<>>
  /\ UNCHANGED <<fields, dropped>>

Next ==
  \/ initialize
  \/ add_scatterplot_layer
  \/ add_heatmap_layer
  \/ call_create_angola_fishing_data
  \/ call_create_temperature_data
  \/ run_sanity_checks
  \/ get_performance_metrics
  \/ cleanup

Spec == Init /\ [][Next]_vars

(***************************************************************************)
(* Properties                                                              *)
(***************************************************************************)
AddOps == {"add_scatterplot_layer", "add_heatmap_layer"}

\* the step is an add-layer call
AddStep == call'.op \in AddOps
\* the step is an add-layer call that returns Ok / Err
AddOk == AddStep /\ call'.ok
AddErr == AddStep /\ ~call'.ok

\* the layer list pl, as the renderer received it, is the registry ls
SameLayers(pl, ls) ==
  /\ Len(pl) = Len(ls)
  /\ \A i \in 1..Len(ls) :
       /\ pl[i].id = ls[i].id
       /\ pl[i].type = ls[i].layer_type
       /\ pl[i].data = ls[i].data

\* C1: an add-layer call that fails leaves the layer registry as it was
\* before the call.
C1_AllOrNothingAppend == [][AddErr => layers' = layers]_vars

\* C2: after an add-layer call that returns successfully, layer_count is the
\* length of the registry and render_time_ms is its value before the call
\* plus the duration measured for the call.
C2_SuccessfulAddMetrics ==
  [][AddOk =>
       /\ performance'.layer_count = Len(layers')
       /\ performance'.render_time_ms =
            performance.render_time_ms + call'.elapsed]_vars

C2_Witness ==
  /\ call.op \in AddOps /\ call.ok /\ call.elapsed > 0
  /\ Len(layers) = 2
  /\ performance.render_time_ms > call.elapsed

\* C3: an add-layer call made while the renderer handle is absent returns
\* without error, grows the registry by one entry, increments layer_count by
\* one and invokes no renderer method.
C3_AddBeforeInitialize ==
  [][(AddStep /\ deck_instance = None) =>
       /\ call'.ok
       /\ Len(layers') = Len(layers) + 1
       /\ performance'.layer_count = performance.layer_count + 1
       /\ call'.calls = <<>>
       /\ deck_instance' = None
       /\ dropped' = dropped]_vars

C3_Witness ==
  /\ call.op \in AddOps /\ call.ok
  /\ deck_instance = None
  /\ Len(layers) = 2 /\ performance.layer_count = 2

\* C4: while a renderer handle exists, a successful add-layer call invokes
\* setProps exactly once, with the whole registry after the append, in
\* insertion order, as its layer list; after initialize and one
\* addScatterplotLayer that list is one layer of type ScatterplotLayer.
C4_FullSnapshotSync ==
  [][(AddOk /\ deck_instance # None) =>
       /\ call'.calls = <<"setProps">>
       /\ deck_instance' # None
       /\ SameLayers(deck_instance'[1].layers, layers')
       /\ (layers = <<>> /\ call'.op = "add_scatterplot_layer") =>
            /\ Len(deck_instance'[1].layers) = 1
            /\ deck_instance'[1].layers[1].type = "ScatterplotLayer"]_vars

\* the first successful sync of a renderer carries a layer added before it
\* was constructed
C4_Witness ==
  /\ call.op \in AddOps /\ call.ok /\ call.calls = <<"setProps">>
  /\ deck_instance # None
  /\ performance.layer_count = 2
  /\ Len(deck_instance[1].layers) = 2
  /\ deck_instance[1].layers[1].type # deck_instance[1].layers[2].type

C6_NoHandleNeverPasses ==
  (call.op = "run_sanity_checks" /\ deck_instance = None) =>
    ret[1].all_passed = FALSE

C6_Witness ==
  /\ call.op = "run_sanity_checks"
  /\ deck_instance = None
  /\ ret[1].all_passed = FALSE
  /\ \A k \in DOMAIN ret[1].checks \ {"deck_instance_created"} :
       ret[1].checks[k]

\* the probe found a WebGL context: on the "webgl2" tier or, failing that,
\* on the "webgl" tier
WebGLFound(probe) == probe.webgl2 = "context" \/ probe.webgl = "context"

C8_MemoryIsHundredPerCountedLayer ==
  call.op = "run_sanity_checks" =>
    /\ performance.memory_usage_kb = 100 * performance.layer_count
    /\ ret[1].performance.memory_usage_kb = 100 * performance.layer_count

\* C9: run_sanity_checks changes no field but memory_usage_kb and invokes no
\* renderer method.
C9_SanityChecksFrame ==
  [][call'.op = "run_sanity_checks" =>
       /\ UNCHANGED <<deck_instance, layers, view_state, canvas_id, dropped>>
       /\ call'.calls = <<>>
       /\ performance' =
            [performance EXCEPT !.memory_usage_kb = performance'.memory_usage_kb]
    ]_vars

C9_Witness ==
  /\ call.op = "run_sanity_checks"
  /\ deck_instance # None
  /\ performance.memory_usage_kb > 0
  /\ performance.layer_count < Len(layers)

\* C10: cleanup invokes finalize on the renderer exactly when a handle
\* exists, and leaves the registry, ViewState and the metrics as they were.
C10_CleanupFrame ==
  [][call'.op = "cleanup" =>
       /\ UNCHANGED <<layers, view_state, performance>>
       /\ IF deck_instance # None
          THEN /\ call'.calls = <<"finalize">>
               /\ deck_instance' # None /\ deck_instance'[1].finalized
          ELSE /\ call'.calls = <<>>
               /\ deck_instance' = None]_vars

C10_Witness ==
  /\ call.op = "cleanup" /\ call.calls = <<"finalize">>
  /\ deck_instance # None /\ deck_instance[1].finalized
  /\ Len(deck_instance[1].layers) > 0
  /\ performance.render_time_ms > 0

InitOk == call'.op = "initialize" /\ call'.ok
InitErr == call'.op = "initialize" /\ ~call'.ok

\* C11 as claimed: after a call to initialize that fails, the renderer handle
\* is None.
C11_FailedInitializeLeavesNone == [][InitErr => deck_instance' = None]_vars

\* C11 as amended: a call to initialize that fails leaves the renderer handle
\* as it was before the call; while the handle is None, an add-layer call
\* succeeds and invokes no renderer method.
C11_FailedInitializeKeepsHandle ==
  [][/\ InitErr => deck_instance' = deck_instance
     /\ (AddStep /\ deck_instance = None) =>
          (call'.ok /\ call'.calls = <<>> /\ deck_instance' = None)]_vars

C11_Witness ==
  /\ call.op = "initialize" /\ ~call.ok
  /\ deck_instance # None
  /\ Len(deck_instance[1].layers) > 0

ConstructionViewState ==
  [longitude |-> 120, latitude |-> -110, zoom |-> 5, pitch |-> 0,
   bearing |-> 0]

\* C12: the renderer handle is None after construction, changes between None
\* and present only in a successful initialize, is present after every
\* successful initialize; ViewState always has its construction-time value.
C12_HandleSetOnlyByInitialize ==
  /\ [](/\ view_state = ConstructionViewState
        /\ call.op = "new" => deck_instance = None)
  /\ [][/\ InitOk => deck_instance' # None
        /\ ~InitOk => ((deck_instance' = None) <=> (deck_instance = None))
        /\ (~InitOk /\ deck_instance # None) =>
              deck_instance'[1].config = deck_instance[1].config]_vars

C12_Witness ==
  /\ call.op = "cleanup"
  /\ deck_instance # None /\ deck_instance[1].finalized
  /\ dropped.live + dropped.finalized > 0
  /\ view_state = ConstructionViewState

\* the records are the grid of latitudes -16, -14, ..., -4 by longitudes
\* 11..14, latitude-major, each with weight 0.3 + (lat + 10) * 0.05
TemperatureGrid(data) ==
  /\ Len(data) = 28
  /\ \A k \in 1..Len(data) :
       LET lat == -16 + 2 * ((k - 1) \div 4)
           lng == 11 + ((k - 1) % 4)
       IN /\ data[k].position = <<lng * 10, lat * 10>>
          /\ data[k].weight = 30 + (lat + 10) * 5

\* C13 as claimed: the temperature generator returns 28 records whose weights
\* lie in [0.3, 1.0].
C13_WeightsFromPointThree ==
  call.op = "create_temperature_data" =>
    /\ TemperatureGrid(ret[1])
    /\ \A k \in 1..Len(ret[1]) :
         ret[1][k].weight >= 30 /\ ret[1][k].weight <= 100

\* C13 as amended: the temperature generator returns 28 records whose weights
\* run from 0.0 (latitude -16) to 0.6 (latitude -4), and are at least 0.3
\* only from latitude -10 northwards.
C13_WeightsFromZero ==
  call.op = "create_temperature_data" =>
    /\ TemperatureGrid(ret[1])
    /\ \A k \in 1..Len(ret[1]) :
         /\ ret[1][k].weight >= 0 /\ ret[1][k].weight <= 60
         /\ ret[1][k].weight >= 30 <=> ret[1][k].position[2] >= -100
    /\ ret[1][1].weight = 0
    /\ ret[1][Len(ret[1])].weight = 60

C13_Witness ==
  /\ call.op = "create_temperature_data"
  /\ Len(ret[1]) = 28
  /\ Len(layers) > 0

ZoneOrder == <<"Cabinda", "Soyo", "Luanda", "Benguela", "Namibe">>
SpeciesList == <<"Sardinha", "Atum", "Carapau", "Corvina", "Garoupa">>

\* C14: the fishing generator returns 50 records, 10 per zone in the zones'
\* order; record i of a zone has abundance 50 + 15 i, species
\* SpeciesList[i mod 5], the zone's name and the zone's base position moved
\* by (i - 5) * 0.1 degrees on both axes, whatever the controller's state.
C14_FishingRecords ==
  call.op = "create_angola_fishing_data" =>
    /\ Len(ret[1]) = 50
    /\ \A k \in 1..Len(ret[1]) :
         LET z == ((k - 1) \div 10) + 1
             i == (k - 1) % 10
         IN /\ ret[1][k].abundance = 50 + 15 * i
            /\ ret[1][k].species = SpeciesList[(i % 5) + 1]
            /\ ret[1][k].zone = ZoneOrder[z]
            /\ zones[z].name = ZoneOrder[z]
            /\ ret[1][k].position =
                 <<zones[z].lng + (i - 5), zones[z].lat + (i - 5)>>

C14_Witness ==
  /\ call.op = "create_angola_fishing_data"
  /\ Len(ret[1]) = 50
  /\ deck_instance # None
  /\ Len(layers) = 2

\* the type tag, id set and record count of an add-layer operation
OpTag(op) ==
  IF op = "add_scatterplot_layer" THEN "ScatterplotLayer" ELSE "HeatmapLayer"
OpIds(op) ==
  IF op = "add_scatterplot_layer" THEN ScatterplotIds ELSE HeatmapIds
OpRecords(op) == IF op = "add_scatterplot_layer" THEN 50 ELSE 28

\* C15: a successful add-layer call appends one entry at the end, with the
\* caller's id, the operation's type tag and its 50 or 28 data records, and
\* leaves the earlier entries as they were, also when the id is registered
\* already; no other operation changes the registry.
C15_AppendOnlyRegistry ==
  [][/\ AddOk =>
          /\ Len(layers') = Len(layers) + 1
          /\ \A i \in 1..Len(layers) : layers'[i] = layers[i]
          /\ layers'[Len(layers')].id \in OpIds(call'.op)
          /\ layers'[Len(layers')].layer_type = OpTag(call'.op)
          /\ Len(layers'[Len(layers')].data) = OpRecords(call'.op)
     /\ ~AddStep => layers' = layers]_vars

C15_Witness ==
  /\ call.op \in AddOps /\ call.ok
  /\ Len(layers) = 2
  /\ layers[1].id = layers[2].id

\* C16: a successful initialize sets init_time_ms to the duration of that
\* call alone; a failed initialize and every other operation leave it as it
\* was.
C16_InitTimeOverwritten ==
  [][/\ InitOk => performance'.init_time_ms = call'.elapsed
     /\ ~InitOk => performance'.init_time_ms = performance.init_time_ms]_vars

C16_Witness ==
  /\ call.op = "initialize" /\ call.ok /\ call.elapsed > 0
  /\ dropped.live + dropped.finalized > 0
  /\ performance.init_time_ms = call.elapsed

\* C17: the stored layer_count is the length of the layer registry.
C17_CountIsRegistryLength == performance.layer_count = Len(layers)

\* C18: while a renderer handle is present, the layer list the renderer holds
\* is the layer registry.
C18_RendererHoldsRegistry ==
  deck_instance # None => SameLayers(deck_instance[1].layers, layers)

\* C19: a renderer on which finalize has been called receives no further
\* call.
C19_NoCallAfterFinalize ==
  [][(deck_instance # None /\ deck_instance[1].finalized) =>
       call'.calls = <<>>]_vars

\* renderers constructed and not finalized
LiveRenderers ==
  dropped.live +
    (IF deck_instance # None /\ ~deck_instance[1].finalized THEN 1 ELSE 0)

\* C20: at most one renderer constructed by the controller is live.
C20_AtMostOneLiveRenderer == LiveRenderers <= 1

====
